---- MODULE Spec2Model ----
(***************************************************************************)
(* A model of package diffparser (diffparser.go): Parse, the single-pass   *)
(* line scanner that turns the text of a unified diff into a Diff value,   *)
(* and Diff.Changed, the projection of the added lines by file name.       *)
(*                                                                         *)
(* Texts are TLA+ strings, so every prefix test, token split and regular   *)
(* expression of the source is computed character by character.  One       *)
(* action models one iteration of the scan loop of Parse, by the case of   *)
(* the switch the line selects.  Pointers (file, hunk) are indexes into    *)
(* diff.Files, 0 standing for nil; dereferencing nil is the run-time panic *)
(* of Go.  A character of a text is one byte of the Go string, so a        *)
(* character above ASCII is the run of its UTF-8 bytes.  The line numbers  *)
(* are Go ints of 64 bits and wrap as Go's do; Parse reads them off the    *)
(* text, so they can be as large as an int.                                *)
(***************************************************************************)
EXTENDS Integers, Sequences, FiniteSets, TLC

VARIABLES
    diffString,       \* the argument of Parse
    lines,            \* strings.Split(diffString, "\n")
    idx,              \* number of lines already scanned (the loop index)
    diff,             \* the local Diff under construction: [Files, Raw]
    file,             \* *DiffFile: index into diff.Files, 0 = nil
    hunk,             \* *DiffHunk: <<file index, hunk index>>, <<0, 0>> = nil
    ADDEDCount,       \* int, in limbs (see Limb): set from the hunk header
    REMOVEDCount,     \* int, in limbs
    inHunk,
    diffPosCount,     \* int; at most the number of lines, a TLA+ integer
    firstHunkInFile,
    pc,               \* "loop" | "returned" | "panic" | "changed"
    ret,              \* the *Diff returned by Parse
    err,              \* the error returned by Parse ("" = nil)
    changed           \* the map returned by ret.Changed()

vars == <<diffString, lines, idx, diff, file, hunk, ADDEDCount, REMOVEDCount,
          inHunk, diffPosCount, firstHunkInFile, pc, ret, err, changed>>

-----------------------------------------------------------------------------
(* Bounds of the checked inputs. *)

\* free inputs: every text of 1..MaxLines lines over Vocab
MaxLines == 3
\* continued inputs: a text of Heads followed by 0..MaxTail lines of TailVocab
MaxTail == 3

-----------------------------------------------------------------------------
(* Enumerations of the package. *)

DELETED == "DELETED"
MODIFIED == "MODIFIED"
\* NEW (a reserved word of TLA+)
NEW_ == "NEW"
RENAMED == "RENAMED"

ADDED == "ADDED"
REMOVED == "REMOVED"
\* UNCHANGED (a reserved word of TLA+)
UNCHANGED_ == "UNCHANGED"

\* the error kinds Parse returns (the text of the error names the line)
ErrNone == ""
ErrHunkHeader == "Error parsing line"
ErrAtoi == "strconv.Atoi: value out of range"
ErrLineMode == "could not parse line mode for line"

-----------------------------------------------------------------------------
(* Strings. *)

Char(s, i) == SubSeq(s, i, i)

\* s[i:] of Go with a 1-based i
From(s, i) == SubSeq(s, i, Len(s))

HasPrefix(s, p) == Len(s) >= Len(p) /\ SubSeq(s, 1, Len(p)) = p

\* strings.CutPrefix: <<rest, found>>
CutPrefix(s, p) == IF HasPrefix(s, p) THEN <<From(s, Len(p) + 1), TRUE>>
                                      ELSE <<s, FALSE>>

\* strings.Split(s, sep) for a separator of one character: the separators
\* are counted and the pieces between them cut out, one more than separators
Split(s, sep) ==
    LET at == {i \in 1..Len(s) : Char(s, i) = sep}
        n == Cardinality(at)
        \* the index of the k-th separator; 0 and Len(s) + 1 bound the text
        pos(k) == IF k = 0 THEN 0
                  ELSE IF k = n + 1 THEN Len(s) + 1
                  ELSE CHOOSE i \in at : Cardinality({j \in at : j < i}) = k - 1
    IN  [k \in 1..(n + 1) |-> SubSeq(s, pos(k - 1) + 1, pos(k) - 1)]

\* the vertical tab (U+000B), for which TLA+ has no escape
VT == ""

\* A character of a text stands for one byte of the Go string.  The bytes
\* 0x80..0xFF are the characters U+FF80..U+FFFF, in this order in HighBytes:
\* TLC keeps the low eight bits of a character of a queued state and reads
\* them back with the sign, which leaves these characters as they are.  The
\* characters U+0080..U+00FF of Latin1 are read as the same bytes.  A
\* character above ASCII is the run of its UTF-8 bytes: the no-break space
\* U+00A0 is Byte(194) \o Byte(160), and the character U+00A0 alone is the
\* byte 0xA0, which is no text of UTF-8.
HighBytes == "ﾀﾁﾂﾃﾄﾅﾆﾇﾈﾉﾊﾋﾌﾍﾎﾏﾐﾑﾒﾓﾔﾕﾖﾗﾘﾙﾚﾛﾜﾝﾞﾟﾠﾡﾢﾣﾤﾥﾦﾧﾨﾩﾪﾫﾬﾭﾮﾯﾰﾱﾲﾳﾴﾵﾶﾷﾸﾹﾺﾻﾼﾽﾾ﾿￀￁ￂￃￄￅￆￇ￈￉ￊￋￌￍￎￏ￐￑ￒￓￔￕￖￗ￘￙ￚￛￜ￝￞￟￠￡￢￣￤￥￦￧￨￩￪￫￬￭￮￯￰￱￲￳￴￵￶￷￸￹￺￻￼�￾￿"

Latin1 == " ¡¢£¤¥¦§¨©ª«¬­®¯°±²³´µ¶·¸¹º»¼½¾¿ÀÁÂÃÄÅÆÇÈÉÊËÌÍÎÏÐÑÒÓÔÕÖ×ØÙÚÛÜÝÞßàáâãäåæçèéêëìíîïðñòóôõö÷øùúûüýþÿ"

\* the byte of value n, 128 <= n <= 255
Byte(n) == Char(HighBytes, n - 127)

\* the bytes from utf8.RuneSelf on
High == {Char(HighBytes, i) : i \in 1..Len(HighBytes)}
        \cup {Char(Latin1, i) : i \in 1..Len(Latin1)}

\* the value of a byte c of High
ByteVal(c) ==
    127 + (CHOOSE i \in 1..Len(HighBytes) :
               Char(HighBytes, i) = c \/ Char(Latin1, i) = c)

\* utf8.RuneError
RuneError == 65533

\* utf8.DecodeRuneInString(s[i-1:]) when s[i-1] >= utf8.RuneSelf: the rune
\* and its width, or (RuneError, 1) when the bytes are no encoding
DecodeRune(s, i) ==
    LET n == Len(s) - i + 1
        \* the k-th byte after the first; 0 for a byte below utf8.RuneSelf
        b(k) == IF Char(s, i + k) \in High THEN ByteVal(Char(s, i + k)) ELSE 0
        b0 == ByteVal(Char(s, i))
        size == IF 194 <= b0 /\ b0 <= 223 THEN 2
                ELSE IF 224 <= b0 /\ b0 <= 239 THEN 3
                ELSE IF 240 <= b0 /\ b0 <= 244 THEN 4
                ELSE 0
        lo == IF b0 = 224 THEN 160 ELSE IF b0 = 240 THEN 144 ELSE 128
        hi == IF b0 = 237 THEN 159 ELSE IF b0 = 244 THEN 143 ELSE 191
        cont(k) == 128 <= b(k) /\ b(k) <= 191
        bad == [r |-> RuneError, size |-> 1]
    IN  IF size = 0 \/ n < size THEN bad
        ELSE IF b(1) < lo \/ hi < b(1) THEN bad
        ELSE IF size = 2 THEN [r |-> (b0 % 32) * 64 + (b(1) % 64), size |-> 2]
        ELSE IF ~cont(2) THEN bad
        ELSE IF size = 3
             THEN [r |-> (b0 % 16) * 4096 + (b(1) % 64) * 64 + (b(2) % 64),
                   size |-> 3]
        ELSE IF ~cont(3) THEN bad
        ELSE [r |-> (b0 % 8) * 262144 + (b(1) % 64) * 4096
                    + (b(2) % 64) * 64 + (b(3) % 64),
              size |-> 4]

\* unicode.IsSpace on the characters below utf8.RuneSelf (asciiSpace)
IsSpace(c) == c \in {" ", "\t", "\n", VT, "\f", "\r"}

\* unicode.IsSpace on the runes from utf8.RuneSelf on: U+0085, U+00A0 and the
\* characters of the property White_Space above Latin-1
IsSpaceRune(r) ==
    r \in {133, 160, 5760, 8232, 8233, 8239, 8287, 12288} \cup (8192..8202)

\* the width of the rune at the i-th byte of s
RuneSize(s, i) == IF Char(s, i) \in High THEN DecodeRune(s, i).size ELSE 1

\* unicode.IsSpace of the rune at the i-th byte of s
SpaceAt(s, i) ==
    IF Char(s, i) \in High THEN IsSpaceRune(DecodeRune(s, i).r)
                           ELSE IsSpace(Char(s, i))

\* the fields of s from its i-th byte on, cur being the field begun
RECURSIVE FieldsFrom(_, _, _)
FieldsFrom(s, i, cur) ==
    IF i > Len(s) THEN (IF cur = "" THEN <<>> ELSE <<cur>>)
    ELSE IF SpaceAt(s, i)
         THEN (IF cur = "" THEN <<>> ELSE <<cur>>)
              \o FieldsFrom(s, i + RuneSize(s, i), "")
    ELSE FieldsFrom(s, i + RuneSize(s, i),
                    cur \o SubSeq(s, i, i + RuneSize(s, i) - 1))

\* strings.Fields
Fields(s) == FieldsFrom(s, 1, "")

IsDigit(c) == c \in {"0", "1", "2", "3", "4", "5", "6", "7", "8", "9"}

DigitVal(c) ==
    CASE c = "0" -> 0 [] c = "1" -> 1 [] c = "2" -> 2 [] c = "3" -> 3
      [] c = "4" -> 4 [] c = "5" -> 5 [] c = "6" -> 6 [] c = "7" -> 7
      [] c = "8" -> 8 [] c = "9" -> 9

\* first index >= i of s that holds no digit
RECURSIVE DigitsEnd(_, _)
DigitsEnd(s, i) ==
    IF i <= Len(s) /\ IsDigit(Char(s, i)) THEN DigitsEnd(s, i + 1) ELSE i

RECURSIVE StripZeros(_)
StripZeros(s) ==
    IF Len(s) > 1 /\ Char(s, 1) = "0" THEN StripZeros(Tail(s)) ELSE s

\* a < b for digit strings of the same length
RECURSIVE DigitsLess(_, _)
DigitsLess(a, b) ==
    IF a = "" THEN FALSE
    ELSE IF Char(a, 1) = Char(b, 1) THEN DigitsLess(Tail(a), Tail(b))
    ELSE DigitVal(Char(a, 1)) < DigitVal(Char(b, 1))

MaxInt64Digits == "9223372036854775807"

\* whether strconv.Atoi fails on the digit string s: the value exceeds int64
AtoiRangeError(s) ==
    LET t == StripZeros(s)
    IN  \/ Len(t) > Len(MaxInt64Digits)
        \/ Len(t) = Len(MaxInt64Digits) /\ DigitsLess(MaxInt64Digits, t)

\* Go's int has 64 bits. An int is held as three limbs <<h, m, l>> that stand
\* for h * Limb^2 + m * Limb + l in two's complement, with 0 <= m, l < Limb
\* and -Limb <= h < Limb; every intermediate value fits the 32 bits of TLC.
Limb == 2^21

\* the int of a number n with 0 <= n < Limb^2
Int64(n) == <<0, n \div Limb, n % Limb>>

\* k * i + n in 64 bits (it wraps), for 0 <= k <= 10 and 0 <= n < Limb
MulAdd(i, k, n) ==
    LET l == k * i[3] + n
        m == k * i[2] + (l \div Limb)
        h == k * i[1] + (m \div Limb)
    IN  <<((h + Limb) % (2 * Limb)) - Limb, m % Limb, l % Limb>>

\* i++
Inc(i) == MulAdd(i, 1, 1)

RECURSIVE AtoiValue(_, _)
AtoiValue(s, acc) ==
    IF s = "" THEN acc
    ELSE AtoiValue(Tail(s), MulAdd(acc, 10, DigitVal(Char(s, 1))))

\* strconv.Atoi of a digit string: [err, val]
Atoi(s) == IF AtoiRangeError(s) THEN [err |-> TRUE, val |-> Int64(0)]
           ELSE [err |-> FALSE, val |-> AtoiValue(s, Int64(0))]

-----------------------------------------------------------------------------
(* The regular expressions of Parse. *)

\* rein: ^index .+$
MatchIndex(l) == HasPrefix(l, "index ") /\ Len(l) >= 7

\* remp: ^(-|\+){3} .+$
MatchMarker(l) ==
    /\ Len(l) >= 5
    /\ \A i \in 1..3 : Char(l, i) \in {"-", "+"}
    /\ Char(l, 4) = " "

\* whether s holds the literal p at index i
At(s, i, p) == i + Len(p) - 1 <= Len(s) /\ SubSeq(s, i, i + Len(p) - 1) = p

\* re: @@ \-(\d+),?(\d+)? \+(\d+),?(\d+)? @@ ?(.+)?  matched at index i of s.
\* Each \d+ is greedy and the text after it admits no shorter choice, so the
\* match, when there is one, is the one computed here.
HunkMatchAt(s, i) ==
    LET a1 == i + 4
        a2 == DigitsEnd(s, a1)
        b1 == IF At(s, a2, ",") THEN a2 + 1 ELSE a2
        b2 == DigitsEnd(s, b1)
        c1 == b2 + 2
        c2 == DigitsEnd(s, c1)
        d1 == IF At(s, c2, ",") THEN c2 + 1 ELSE c2
        d2 == DigitsEnd(s, d1)
        e1 == d2 + 3
        h1 == IF At(s, e1, " ") THEN e1 + 1 ELSE e1
        ok == /\ At(s, i, "@@ -")
              /\ a2 > a1
              /\ At(s, b2, " +")
              /\ c2 > c1
              /\ At(s, d2, " @@")
    IN  IF ok
        THEN [ok |-> TRUE,
              m1 |-> SubSeq(s, a1, a2 - 1), m2 |-> SubSeq(s, b1, b2 - 1),
              m3 |-> SubSeq(s, c1, c2 - 1), m4 |-> SubSeq(s, d1, d2 - 1),
              m5 |-> From(s, h1)]
        ELSE [ok |-> FALSE, m1 |-> "", m2 |-> "", m3 |-> "", m4 |-> "", m5 |-> ""]

\* re.FindStringSubmatch(l): the leftmost match (the expression is not anchored)
RECURSIVE HunkFindFrom(_, _)
HunkFindFrom(s, i) ==
    IF i > Len(s) THEN HunkMatchAt(s, i)
    ELSE IF HunkMatchAt(s, i).ok THEN HunkMatchAt(s, i)
    ELSE HunkFindFrom(s, i + 1)

FindHunkSubmatch(l) == HunkFindFrom(l, 1)

\* lines 225-250: the four numbers and the heading of a hunk header line, or
\* the error Parse returns
ParseHunkHeader(l) ==
    LET m == FindHunkSubmatch(l)
        a == Atoi(m.m1)
        b == IF Len(m.m2) > 0 THEN Atoi(m.m2) ELSE a
        c == Atoi(m.m3)
        d == IF Len(m.m4) > 0 THEN Atoi(m.m4) ELSE c
        bad == [err |-> ErrHunkHeader, a |-> Int64(0), b |-> Int64(0),
                c |-> Int64(0), d |-> Int64(0), heading |-> ""]
    IN  IF ~m.ok THEN bad
        ELSE IF a.err \/ b.err \/ c.err \/ d.err
             THEN [bad EXCEPT !.err = ErrAtoi]
        ELSE [err |-> ErrNone, a |-> a.val, b |-> b.val, c |-> c.val,
              d |-> d.val, heading |-> m.m5]

-----------------------------------------------------------------------------
(* lineMode and isSourceLine. *)

\* lineMode with a default case that takes the line as unchanged
lineMode_Lenient(line) ==
    LET c == Char(line, 1)
    IN  IF c = "+" THEN [err |-> ErrNone, mode |-> ADDED]
        ELSE IF c = "-" THEN [err |-> ErrNone, mode |-> REMOVED]
        ELSE [err |-> ErrNone, mode |-> UNCHANGED_]

\* lineMode: [err, mode]
lineMode(line) ==
    LET c == Char(line, 1)
    IN  IF c = " " THEN [err |-> ErrNone, mode |-> UNCHANGED_]
        ELSE IF c = "+" THEN [err |-> ErrNone, mode |-> ADDED]
        ELSE IF c = "-" THEN [err |-> ErrNone, mode |-> REMOVED]
        ELSE [err |-> ErrLineMode, mode |-> ""]

\* isSourceLine without the test for `---` and `+++`
isSourceLine_NoMarkers(line) ==
    IF line = "\\ No newline at end of file" THEN FALSE
    ELSE IF Len(line) = 0 THEN FALSE
    ELSE TRUE

isSourceLine(line) ==
    IF line = "\\ No newline at end of file" THEN FALSE
    ELSE IF Len(line) = 0
            \/ (Len(line) >= 3 /\ (SubSeq(line, 1, 3) = "---"
                                   \/ SubSeq(line, 1, 3) = "+++"))
         THEN FALSE
    ELSE TRUE

-----------------------------------------------------------------------------
(* Diff.Changed. *)

\* dFiles[key] = []int{n}: the entry is replaced, not appended to
MapAppend_Overwrite(m, key, n) ==
    IF key \in DOMAIN m THEN [m EXCEPT ![key] = <<n>>]
                        ELSE m @@ (key :> <<n>>)

\* dFiles[key] = append(dFiles[key], n)
MapAppend(m, key, n) ==
    IF key \in DOMAIN m THEN [m EXCEPT ![key] = Append(@, n)]
                        ELSE m @@ (key :> <<n>>)

\* the loop over h.NewRange.Lines, from its k-th line
RECURSIVE ChangedLines(_, _, _, _)
ChangedLines(m, name, ls, k) ==
    IF k > Len(ls) THEN m
    ELSE ChangedLines(IF ls[k].Mode = ADDED THEN MapAppend(m, name, ls[k].Number)
                                            ELSE m,
                      name, ls, k + 1)

\* the loop over f.Hunks, from its j-th hunk
RECURSIVE ChangedHunks(_, _, _, _)
ChangedHunks(m, name, hs, j) ==
    IF j > Len(hs) THEN m
    ELSE ChangedHunks(ChangedLines(m, name, hs[j].NewRange.Lines, 1),
                      name, hs, j + 1)

\* Changed without the test of line 119
ChangedSkips_Never(f) == FALSE

\* whether Changed skips the file f
ChangedSkips(f) == f.Mode = DELETED

\* the loop over d.Files, from its i-th file
RECURSIVE ChangedFiles(_, _, _)
ChangedFiles(m, fs, i) ==
    IF i > Len(fs) THEN m
    ELSE ChangedFiles(IF ChangedSkips(fs[i]) THEN m
                      ELSE ChangedHunks(m, fs[i].NewName, fs[i].Hunks, 1),
                      fs, i + 1)

Changed(d) == ChangedFiles(<<>>, d.Files, 1)

-----------------------------------------------------------------------------
(* The scan loop of Parse. *)

NilDiff == [nil |-> TRUE, Files |-> <<>>, Raw |-> ""]

NilHunk == <<0, 0>>

\* DiffRange{Start: s, Length: n}
DiffRange(s, n) == [Start |-> s, Length |-> n, Lines |-> <<>>]

\* &DiffHunk{}
EmptyHunk == [HunkHeader |-> "", OrigRange |-> DiffRange(Int64(0), Int64(0)),
              NewRange |-> DiffRange(Int64(0), Int64(0)),
              WholeRange |-> DiffRange(Int64(0), Int64(0))]

\* the switch with a content case that does not test inHunk
SwitchCase_AnySource(l, inH) ==
    IF HasPrefix(l, "diff ") THEN "diff"
    ELSE IF HasPrefix(l, "deleted file ") THEN "deleted"
    ELSE IF HasPrefix(l, "new file ") THEN "new"
    ELSE IF HasPrefix(l, "rename ") THEN "rename"
    ELSE IF HasPrefix(l, "@@ ") THEN "hunk"
    ELSE IF isSourceLine(l) THEN "source"
    ELSE "none"

\* the switch with a first case that takes only the lines of git
SwitchCase_GitOnly(l, inH) ==
    IF HasPrefix(l, "diff --git ") THEN "diff"
    ELSE IF HasPrefix(l, "deleted file ") THEN "deleted"
    ELSE IF HasPrefix(l, "new file ") THEN "new"
    ELSE IF HasPrefix(l, "rename ") THEN "rename"
    ELSE IF HasPrefix(l, "@@ ") THEN "hunk"
    ELSE IF inH /\ isSourceLine(l) THEN "source"
    ELSE "none"

\* the case of the switch that the line l selects
SwitchCase(l, inH) ==
    IF HasPrefix(l, "diff ") THEN "diff"
    ELSE IF HasPrefix(l, "deleted file ") THEN "deleted"
    ELSE IF HasPrefix(l, "new file ") THEN "new"
    ELSE IF HasPrefix(l, "rename ") THEN "rename"
    ELSE IF HasPrefix(l, "@@ ") THEN "hunk"
    ELSE IF inH /\ isSourceLine(l) THEN "source"
    ELSE "none"

\* lines 180-188 with strings.TrimPrefix: a token without the marker is
\* taken as the name
FileNames_Trim(l) ==
    LET fields == Fields(l)
        from == fields[Len(fields) - 1]
        to == fields[Len(fields)]
    IN  IF Len(fields) >= 3
        THEN [OrigName |-> CutPrefix(from, "a/")[1],
              NewName |-> CutPrefix(to, "b/")[1]]
        ELSE [OrigName |-> "", NewName |-> ""]

\* lines 180-188: the names parsed from the diff line
FileNames(l) ==
    LET fields == Fields(l)
        from == fields[Len(fields) - 1]
        to == fields[Len(fields)]
    IN  IF Len(fields) >= 3
        THEN [OrigName |-> IF CutPrefix(from, "a/")[2]
                           THEN CutPrefix(from, "a/")[1] ELSE "",
              NewName |-> IF CutPrefix(to, "b/")[2]
                          THEN CutPrefix(to, "b/")[1] ELSE ""]
        ELSE [OrigName |-> "", NewName |-> ""]

\* lines 190-204: the header of the file started by line i+1 of ls (i is the
\* loop index of Go)
DiffHeaderOf(ls, i) ==
    LET l == ls[i + 1]
    IN  IF Len(ls) > i + 3
        THEN LET index == ls[i + 2]
                 mp1 == ls[i + 3]
                 mp2 == ls[i + 4]
                 h1 == IF MatchIndex(index) THEN l \o "\n" \o index ELSE l
             IN  IF MatchMarker(mp1) /\ MatchMarker(mp2)
                 THEN h1 \o "\n" \o mp1 \o "\n" \o mp2
                 ELSE h1
        ELSE l

\* &DiffFile{}: the zero value of FileMode is DELETED
NewFileMode_Zero == DELETED

\* lines 174-176: &DiffFile{Mode: MODIFIED}
NewFileMode == MODIFIED

\* the hunk line without the reset of lines 213-216
HunkPos_NoReset(first, pos) == pos

\* lines 213-216: diffPosCount after the hunk line (pos is the count after
\* the increment of line 167)
HunkPos(first, pos) == IF first THEN 0 ELSE pos

\* lines 256-265 with the two ranges taken for one another
HunkWithHeader_Swapped(h, hh) ==
    [h EXCEPT !.HunkHeader = hh.heading,
              !.OrigRange = DiffRange(hh.c, hh.d),
              !.NewRange = DiffRange(hh.a, hh.b)]

\* lines 256-265: the hunk with the ranges of its header
HunkWithHeader(h, hh) ==
    [h EXCEPT !.HunkHeader = hh.heading,
              !.OrigRange = DiffRange(hh.a, hh.b),
              !.NewRange = DiffRange(hh.c, hh.d)]

\* lines 275-305 without line 302: an unchanged line misses in OrigRange
AddLine_SkipOrig(h, m, l, pos, ac, rc) ==
    LET line == [Mode |-> m, Number |-> Int64(0), Content |-> From(l, 2),
                 Position |-> pos]
        newLine == [line EXCEPT !.Number = ac]
        origLine == [line EXCEPT !.Number = rc]
    IN  IF m = REMOVED
        THEN [h EXCEPT !.OrigRange.Lines = Append(@, origLine),
                       !.WholeRange.Lines = Append(@, origLine)]
        ELSE [h EXCEPT !.NewRange.Lines = Append(@, newLine),
                       !.WholeRange.Lines = Append(@, newLine)]

\* lines 275-305 with origLine for newLine at line 300: the WholeRange entry
\* of an unchanged line carries the old number
AddLine_WholeOrig(h, m, l, pos, ac, rc) ==
    LET line == [Mode |-> m, Number |-> Int64(0), Content |-> From(l, 2),
                 Position |-> pos]
        newLine == [line EXCEPT !.Number = ac]
        origLine == [line EXCEPT !.Number = rc]
    IN  IF m = ADDED
        THEN [h EXCEPT !.NewRange.Lines = Append(@, newLine),
                       !.WholeRange.Lines = Append(@, newLine)]
        ELSE IF m = REMOVED
        THEN [h EXCEPT !.OrigRange.Lines = Append(@, origLine),
                       !.WholeRange.Lines = Append(@, origLine)]
        ELSE [h EXCEPT !.NewRange.Lines = Append(@, newLine),
                       !.WholeRange.Lines = Append(@, origLine),
                       !.OrigRange.Lines = Append(@, origLine)]

\* lines 275-305: the hunk h after the content line l of mode m at position
\* pos, ac and rc being ADDEDCount and REMOVEDCount
AddLine(h, m, l, pos, ac, rc) ==
    LET line == [Mode |-> m, Number |-> Int64(0), Content |-> From(l, 2),
                 Position |-> pos]
        newLine == [line EXCEPT !.Number = ac]
        origLine == [line EXCEPT !.Number = rc]
    IN  IF m = ADDED
        THEN [h EXCEPT !.NewRange.Lines = Append(@, newLine),
                       !.WholeRange.Lines = Append(@, newLine)]
        ELSE IF m = REMOVED
        THEN [h EXCEPT !.OrigRange.Lines = Append(@, origLine),
                       !.WholeRange.Lines = Append(@, origLine)]
        ELSE [h EXCEPT !.NewRange.Lines = Append(@, newLine),
                       !.WholeRange.Lines = Append(@, newLine),
                       !.OrigRange.Lines = Append(@, origLine)]

\* lines 289, 303: ADDEDCount after a content line of mode m
NextADDEDCount(m, ac) == IF m \in {ADDED, UNCHANGED_} THEN Inc(ac) ELSE ac

\* lines 295, 304: REMOVEDCount after a content line of mode m
NextREMOVEDCount(m, rc) ==
    IF m \in {REMOVED, UNCHANGED_} THEN Inc(rc) ELSE rc

Scanning == pc = "loop" /\ idx < Len(lines)

\* the line of this iteration
Cur == lines[idx + 1]

\* a nil pointer is dereferenced: the goroutine panics
Panic ==
    /\ pc' = "panic"
    /\ UNCHANGED <<diffString, lines, idx, diff, file, hunk, ADDEDCount,
                   REMOVEDCount, ret, err, changed>>

\* return nil, e
ReturnError(e) ==
    /\ pc' = "returned"
    /\ ret' = NilDiff
    /\ err' = e

\* case strings.HasPrefix(l, "diff ")
FileStart ==
    /\ Scanning
    /\ SwitchCase(Cur, inHunk) = "diff"
    /\ diffPosCount' = diffPosCount + 1
    /\ inHunk' = FALSE
    /\ firstHunkInFile' = TRUE
    /\ diff' = [diff EXCEPT !.Files = Append(@,
                   [DiffHeader |-> DiffHeaderOf(lines, idx),
                    Mode |-> NewFileMode,
                    OrigName |-> FileNames(Cur).OrigName,
                    NewName |-> FileNames(Cur).NewName,
                    Hunks |-> <<>>])]
    /\ file' = Len(diff.Files) + 1
    /\ idx' = idx + 1
    /\ UNCHANGED <<diffString, lines, hunk, ADDEDCount, REMOVEDCount, pc, ret,
                   err, changed>>

\* file.Mode = m
SetMode(m) ==
    /\ diffPosCount' = diffPosCount + 1
    /\ IF file = 0
       THEN Panic /\ UNCHANGED <<inHunk, firstHunkInFile>>
       ELSE /\ diff' = [diff EXCEPT !.Files[file].Mode = m]
            /\ idx' = idx + 1
            /\ UNCHANGED <<diffString, lines, file, hunk, ADDEDCount,
                           REMOVEDCount, inHunk, firstHunkInFile, pc, ret, err,
                           changed>>

\* case strings.HasPrefix(l, "deleted file ")
ModeDeleted ==
    /\ Scanning
    /\ SwitchCase(Cur, inHunk) = "deleted"
    /\ SetMode(DELETED)

\* case strings.HasPrefix(l, "new file ")
ModeNew ==
    /\ Scanning
    /\ SwitchCase(Cur, inHunk) = "new"
    /\ SetMode(NEW_)

\* case strings.HasPrefix(l, "rename ")
ModeRename ==
    /\ Scanning
    /\ SwitchCase(Cur, inHunk) = "rename"
    /\ SetMode(RENAMED)

\* case strings.HasPrefix(l, "@@ ")
HunkStart ==
    /\ Scanning
    /\ SwitchCase(Cur, inHunk) = "hunk"
    /\ diffPosCount' = HunkPos(firstHunkInFile, diffPosCount + 1)
    /\ firstHunkInFile' = FALSE
    /\ inHunk' = TRUE
    /\ IF file = 0
       THEN Panic
       ELSE LET hh == ParseHunkHeader(Cur)
                hi == Len(diff.Files[file].Hunks) + 1
            IN  /\ hunk' = <<file, hi>>
                /\ UNCHANGED <<diffString, lines, file, changed>>
                /\ IF hh.err # ErrNone
                   THEN /\ ReturnError(hh.err)
                        /\ diff' = [diff EXCEPT !.Files[file].Hunks =
                                                    Append(@, EmptyHunk)]
                        /\ UNCHANGED <<idx, ADDEDCount, REMOVEDCount>>
                   ELSE /\ diff' = [diff EXCEPT !.Files[file].Hunks =
                                 Append(@, HunkWithHeader(EmptyHunk, hh))]
                        /\ ADDEDCount' = hh.c
                        /\ REMOVEDCount' = hh.a
                        /\ idx' = idx + 1
                        /\ UNCHANGED <<pc, ret, err>>

\* case inHunk && isSourceLine(l)
SourceLine ==
    /\ Scanning
    /\ SwitchCase(Cur, inHunk) = "source"
    /\ diffPosCount' = diffPosCount + 1
    /\ UNCHANGED <<diffString, lines, file, hunk, inHunk, firstHunkInFile,
                   changed>>
    /\ LET m == lineMode(Cur)
       IN  IF m.err # ErrNone
           THEN /\ ReturnError(m.err)
                /\ UNCHANGED <<idx, diff, ADDEDCount, REMOVEDCount>>
           ELSE IF hunk = NilHunk
           THEN /\ pc' = "panic"
                /\ UNCHANGED <<idx, diff, ADDEDCount, REMOVEDCount, ret, err>>
           ELSE /\ diff' = [diff EXCEPT !.Files[hunk[1]].Hunks[hunk[2]] =
                               AddLine(@, m.mode, Cur, diffPosCount + 1,
                                       ADDEDCount, REMOVEDCount)]
                /\ ADDEDCount' = NextADDEDCount(m.mode, ADDEDCount)
                /\ REMOVEDCount' = NextREMOVEDCount(m.mode, REMOVEDCount)
                /\ idx' = idx + 1
                /\ UNCHANGED <<pc, ret, err>>

\* no case of the switch applies: the line is passed over
SkipLine ==
    /\ Scanning
    /\ SwitchCase(Cur, inHunk) = "none"
    /\ diffPosCount' = diffPosCount + 1
    /\ idx' = idx + 1
    /\ UNCHANGED <<diffString, lines, diff, file, hunk, ADDEDCount,
                   REMOVEDCount, inHunk, firstHunkInFile, pc, ret, err, changed>>

\* line 309: return &diff, nil
Return ==
    /\ pc = "loop"
    /\ idx = Len(lines)
    /\ pc' = "returned"
    /\ ret' = [nil |-> FALSE, Files |-> diff.Files, Raw |-> diff.Raw]
    /\ err' = ErrNone
    /\ UNCHANGED <<diffString, lines, idx, diff, file, hunk, ADDEDCount,
                   REMOVEDCount, inHunk, diffPosCount, firstHunkInFile, changed>>

\* the caller calls Changed on the Diff that Parse returned
CallChanged ==
    /\ pc = "returned"
    /\ ~ret.nil
    /\ pc' = "changed"
    /\ changed' = Changed(ret)
    /\ UNCHANGED <<diffString, lines, idx, diff, file, hunk, ADDEDCount,
                   REMOVEDCount, inHunk, diffPosCount, firstHunkInFile, ret, err>>

-----------------------------------------------------------------------------
(* The checked inputs. *)

\* the lines of the free inputs
Vocab ==
    {"diff --git a/x b/x", "diff x",
     "deleted file mode 100644", "new file mode 100644", "rename from x",
     "@@ -1,3 +1,4 @@", "@@ bad @@", "@@ x @@ -1 +2 @@",
     " a", "+b", "-c", "", "junk"}

\* the lines that continue a head
TailVocab ==
    {"diff --git a/x b/x", "deleted file mode 100644", "@@ -5 +7 @@ fn",
     " a", "+b", "-c", "", "\\ No newline at end of file", "--- a/x"}

\* the beginnings of a diff that the continued inputs extend
Heads ==
    {<<"diff --git a/x b/x", "@@ -1,3 +1,4 @@", " a", "+b">>,
     <<"diff --git a/x b/x", "deleted file mode 100644", "@@ -1,2 +0,0 @@",
       "-a">>,
     <<"diff --git a/y b/y", "new file mode 100644", "@@ -0,0 +1,2 @@",
       "+a">>}

\* whole diffs, as git writes them and as the documentation describes them
Scenarios ==
    {<<"diff --git a/x b/x", "@@ -1,3 +1,4 @@", " a", "+b", " c", "-old">>,
     <<"diff --git a/x.txt b/x.txt", "index 1..2 100644", "--- a/x.txt",
       "+++ b/x.txt", "@@ -4,0 +5,2 @@ fn", "+a", "+b">>,
     <<"diff --git a/x b/x", "index 1..2 100644", "--- a/x", "+++ b/x",
       "@@ -1 +1 @@", "-a", "\\ No newline at end of file", "+b",
       "diff --git a/y b/y", "new file mode 100644", "index 0..3",
       "--- /dev/null", "+++ b/y", "@@ -0,0 +1 @@", "+c", "">>,
     <<"diff --git a/x b/x", "@@ -99999999999999999999 +1 @@", "+a">>,
     <<"diff --git a/x b/x", "@@ -1 +9223372036854775808,2 @@", "+a">>,
     <<"diff --git a/x b/x", "index 1..2 100644", "@@ -1 +1 @@">>,
     <<"diff --git a/x b/x", "--- a/x", "+++ b/x", "@@ -1 +1 @@", "+a">>,
     <<"diff --git a/x b/x", "index 1..2 100644", "--- a/x", "@@ -1 +1 @@",
       "+a">>,
     <<"diff --git a/x b/x", "@@ -2,0 +3 @@  two", "+a", "@@ -8,1 +9,2 @@",
       "+b">>,
     <<"diff --git x b/y">>,
     <<"diff a/p b/q">>,
     <<"diff --git a/x y">>,
     <<"diff  -r\ta/x b/a/y ">>,
     <<"diff a/x" \o VT \o "b/y", "@@ -1 +1 @@", "+a">>,
     <<"diff a/x" \o VT \o "b/y c">>,
     <<"diff a b", "@@ -1 +9223372036854775807 @@", "+a", "+b", "-c">>,
     <<"diff a b", "@@ -9223372036854775806,3 +2147483648 @@", "-a", " b",
       "-c">>,
     <<"diff a/x" \o Byte(194) \o Byte(160) \o "b/y", "@@ -1 +1 @@", "+a">>,
     <<"diff --git a/n" \o Byte(194) \o Byte(160) \o "m b/n" \o Byte(194)
       \o Byte(160) \o "m">>,
     <<"diff a/x" \o Byte(227) \o Byte(128) \o Byte(128) \o "b/y">>,
     <<"diff" \o Byte(194) \o Byte(133) \o "a/x" \o Byte(226) \o Byte(128)
       \o Byte(138) \o "b/y">>,
     <<"diff a/x" \o Byte(160) \o "b/y b/c">>,
     <<"diff a/x b/y" \o Byte(194)>>,
     <<"diff a/" \o Byte(195) \o Byte(169) \o " b/" \o Byte(226) \o Byte(128)
       \o Byte(139), "@@ -1 +1 @@", "+a">>}

\* the line sequences of 1..n lines over V
LineSeqs(V, n) == UNION {[1..k -> V] : k \in 1..n}

\* the text whose lines are ls
RECURSIVE Join(_)
Join(ls) == IF Len(ls) = 1 THEN ls[1] ELSE ls[1] \o "\n" \o Join(Tail(ls))

Inputs ==
    {Join(ls) : ls \in LineSeqs(Vocab, MaxLines)}
    \cup {Join(h \o t) : h \in Heads,
                         t \in {<<>>} \cup LineSeqs(TailVocab, MaxTail)}
    \cup {Join(ls) : ls \in Scenarios}

Init ==
    /\ diffString \in Inputs
    /\ lines = Split(diffString, "\n")
    /\ idx = 0
    /\ diff = [Files |-> <<>>, Raw |-> diffString]
    /\ file = 0
    /\ hunk = NilHunk
    /\ ADDEDCount = Int64(0)
    /\ REMOVEDCount = Int64(0)
    /\ inHunk = FALSE
    /\ diffPosCount = 0
    /\ firstHunkInFile = FALSE
    /\ pc = "loop"
    /\ ret = NilDiff
    /\ err = ErrNone
    /\ changed = <<>>

Next ==
    \/ FileStart
    \/ ModeDeleted
    \/ ModeNew
    \/ ModeRename
    \/ HunkStart
    \/ SourceLine
    \/ SkipLine
    \/ Return
    \/ CallChanged

Spec == Init /\ [][Next]_vars

-----------------------------------------------------------------------------
(* The input as the format describes it, read off the text of the lines    *)
(* and not off the state of the scan: the sections, the hunks and the      *)
(* content lines that a diff text holds.                                   *)

Starts(l, p) == Len(l) >= Len(p) /\ SubSeq(l, 1, Len(p)) = p

IsDiffLine(l) == Starts(l, "diff ")

IsModeLine(l) ==
    Starts(l, "deleted file ") \/ Starts(l, "new file ") \/ Starts(l, "rename ")

IsHunkLine(l) == Starts(l, "@@ ")

\* a line that is hunk content when it lies in a hunk
IsContent(l) ==
    /\ ~IsDiffLine(l) /\ ~IsModeLine(l) /\ ~IsHunkLine(l)
    /\ l # ""
    /\ l # "\\ No newline at end of file"
    /\ ~Starts(l, "---") /\ ~Starts(l, "+++")

\* the indexes lo..hi of the input whose line satisfies Test, in order
IdxsIn(lo, hi, Test(_)) ==
    SelectSeq([k \in 1..Len(lines) |-> k],
              LAMBDA k : lo <= k /\ k <= hi /\ Test(lines[k]))

\* the indexes of the `diff ` lines
DiffIdxs == IdxsIn(1, Len(lines), IsDiffLine)

\* the last line of the i-th file section
SectionEnd(i) == IF i < Len(DiffIdxs) THEN DiffIdxs[i + 1] - 1 ELSE Len(lines)

\* the mode lines of the i-th file section
ModeIdxs(i) == IdxsIn(DiffIdxs[i] + 1, SectionEnd(i), IsModeLine)

\* the `@@ ` lines of the i-th file section
HunkIdxs(i) == IdxsIn(DiffIdxs[i] + 1, SectionEnd(i), IsHunkLine)

\* the last line of the j-th hunk of the i-th file section
HunkEnd(i, j) ==
    IF j < Len(HunkIdxs(i)) THEN HunkIdxs(i)[j + 1] - 1 ELSE SectionEnd(i)

\* the content lines of the j-th hunk of the i-th file section
ContentIdxs(i, j) == IdxsIn(HunkIdxs(i)[j] + 1, HunkEnd(i, j), IsContent)

\* those whose first character is one of cs
ContentIdxsOf(i, j, cs) ==
    SelectSeq(ContentIdxs(i, j), LAMBDA k : Char(lines[k], 1) \in cs)

\* the mode that a mode line stands for
ModeOfLine(l) ==
    IF Starts(l, "deleted file ") THEN DELETED
    ELSE IF Starts(l, "new file ") THEN NEW_
    ELSE RENAMED

\* Parse has returned
Returned == pc \in {"returned", "changed"}

\* Parse has returned a Diff
ReturnedDiff == Returned /\ ~ret.nil

\* the hunks of the returned Diff, as <<file index, hunk index>>
RetHunks ==
    {<<i, j>> \in (1..Len(ret.Files)) \X (1..Len(lines)) :
        j <= Len(ret.Files[i].Hunks)}

RetHunk(ij) == ret.Files[ij[1]].Hunks[ij[2]]

\* the lines of the sequence ls whose mode is m
OfMode(ls, m) == SelectSeq(ls, LAMBDA x : x.Mode = m)

-----------------------------------------------------------------------------
(* Claims. *)

\* C1: for every input, Parse returns a Diff or one of its two errors (a
\* malformed hunk header, an unrecognized line-mode prefix); nothing else,
\* such as a panic, happens.
C1_OnlyTwoFailures ==
    /\ pc # "panic"
    /\ Returned =>
          \/ ~ret.nil /\ err = ErrNone
          \/ ret.nil /\ err \in {ErrHunkHeader, ErrAtoi, ErrLineMode}

\* C2: line conservation: in the returned Diff every hunk holds in WholeRange
\* one line per content line of the hunk, in NewRange one per added or
\* unchanged content line and in OrigRange one per removed or unchanged
\* content line; NewRange holds no REMOVED line, OrigRange no ADDED line.
C2_LineConservation ==
    ReturnedDiff =>
        \A ij \in RetHunks :
            LET h == RetHunk(ij)
                nAdded == Len(ContentIdxsOf(ij[1], ij[2], {"+"}))
                nRemoved == Len(ContentIdxsOf(ij[1], ij[2], {"-"}))
                nUnchanged == Len(ContentIdxsOf(ij[1], ij[2], {" "}))
            IN  /\ Len(h.WholeRange.Lines) = nAdded + nRemoved + nUnchanged
                /\ Len(h.NewRange.Lines) = nAdded + nUnchanged
                /\ Len(h.OrigRange.Lines) = nRemoved + nUnchanged
                /\ Len(OfMode(h.WholeRange.Lines, ADDED)) = nAdded
                /\ Len(OfMode(h.WholeRange.Lines, REMOVED)) = nRemoved
                /\ Len(OfMode(h.WholeRange.Lines, UNCHANGED_)) = nUnchanged
                /\ OfMode(h.NewRange.Lines, REMOVED) = <<>>
                /\ OfMode(h.OrigRange.Lines, ADDED) = <<>>

\* a hunk of the returned Diff holds lines of the three modes
C2_Witness ==
    /\ ReturnedDiff
    /\ \E ij \in RetHunks :
          /\ OfMode(RetHunk(ij).WholeRange.Lines, ADDED) # <<>>
          /\ OfMode(RetHunk(ij).WholeRange.Lines, REMOVED) # <<>>
          /\ OfMode(RetHunk(ij).WholeRange.Lines, UNCHANGED_) # <<>>
          /\ Len(RetHunk(ij).NewRange.Lines) > 1
          /\ Len(RetHunk(ij).OrigRange.Lines) > 1

\* the number i + n for 0 <= n < Limb, in limbs of which the first is not
\* held to 64 bits: the sum of the integers, that no int may equal
Sum(i, n) ==
    LET l == i[3] + n
        m == i[2] + (l \div Limb)
    IN  <<i[1] + (m \div Limb), m % Limb, l % Limb>>

\* C3: numbering: in every hunk of the returned Diff the k-th line of NewRange
\* has Number NewRange.Start + k - 1 and the k-th line of OrigRange has Number
\* OrigRange.Start + k - 1.
C3_Numbering ==
    ReturnedDiff =>
        \A ij \in RetHunks :
            LET h == RetHunk(ij)
            IN  /\ \A k \in 1..Len(h.NewRange.Lines) :
                      h.NewRange.Lines[k].Number = Sum(h.NewRange.Start, k - 1)
                /\ \A k \in 1..Len(h.OrigRange.Lines) :
                      h.OrigRange.Lines[k].Number =
                          Sum(h.OrigRange.Start, k - 1)

\* the numbers of the lines ls
Numbers(ls) == [k \in 1..Len(ls) |-> ls[k].Number]

\* the positions of the lines ls
Positions(ls) == [k \in 1..Len(ls) |-> ls[k].Position]

\* the distances of the input lines ks to the input line first
Distances(ks, first) == [k \in 1..Len(ks) |-> ks[k] - first]

\* C4: the Position of every content line is the index of the line in the
\* input minus the index of the first `@@ ` line of its file section.
C4_Position ==
    ReturnedDiff =>
        \A ij \in RetHunks :
            LET h == RetHunk(ij)
                first == HunkIdxs(ij[1])[1]
            IN  /\ Positions(h.WholeRange.Lines)
                     = Distances(ContentIdxs(ij[1], ij[2]), first)
                /\ Positions(h.NewRange.Lines)
                     = Distances(ContentIdxsOf(ij[1], ij[2], {"+", " "}), first)
                /\ Positions(h.OrigRange.Lines)
                     = Distances(ContentIdxsOf(ij[1], ij[2], {"-", " "}), first)

\* a Diff of two files: in both the line after the first hunk header has
\* Position 1, and in the first a line that is no content took a position
C4_Witness ==
    /\ ReturnedDiff
    /\ Len(ret.Files) = 2
    /\ Len(ret.Files[1].Hunks) = 1
    /\ Len(ret.Files[2].Hunks) = 1
    /\ Positions(ret.Files[1].Hunks[1].WholeRange.Lines) = <<1, 3>>
    /\ Positions(ret.Files[2].Hunks[1].WholeRange.Lines) = <<1>>

\* the line l has the form `@@ -A[,B] +C[,D] @@ [heading]`
WellFormedHunkLine(l) == HunkMatchAt(l, 1).ok

\* C5: when the input holds a line that starts with `@@ ` and has not the form
\* `@@ -A[,B] +C[,D] @@ [heading]`, Parse returns an error and no Diff.
C5_MalformedHunkLineFails ==
    (Returned /\ \E k \in 1..Len(lines) :
                    IsHunkLine(lines[k]) /\ ~WellFormedHunkLine(lines[k]))
        => ret.nil /\ err # ErrNone

\* the line of this iteration is content with an unknown first character
BadContentNext ==
    /\ Scanning
    /\ IsContent(Cur)
    /\ Char(Cur, 1) \notin {" ", "+", "-"}

\* C6: a content line whose first character is not space, `+` or `-` makes
\* Parse return an error and no Diff when a hunk is active, and is passed
\* over without any effect when no hunk is active.
C6_BadPrefix ==
    [][BadContentNext =>
          IF inHunk
          THEN pc' = "returned" /\ ret' = NilDiff /\ err' = ErrLineMode
          ELSE pc' = "loop" /\ idx' = idx + 1 /\ diff' = diff
               /\ err' = ErrNone /\ inHunk' = inHunk]_vars

\* Parse has returned the line-mode error for the line it stopped at
C6_Witness ==
    /\ pc = "returned"
    /\ ret = NilDiff
    /\ err = ErrLineMode
    /\ inHunk
    /\ Cur = "junk"
    /\ Len(diff.Files) > 0

\* C7: in the returned Diff no DELETED file has an ADDED line in a NewRange
\* and no NEW file has a REMOVED line in an OrigRange.
C7_ModeExcludesLines ==
    ReturnedDiff =>
        \A ij \in RetHunks :
            /\ ret.Files[ij[1]].Mode = DELETED
                  => OfMode(RetHunk(ij).NewRange.Lines, ADDED) = <<>>
            /\ ret.Files[ij[1]].Mode = NEW_
                  => OfMode(RetHunk(ij).OrigRange.Lines, REMOVED) = <<>>

\* the file f has an ADDED line in the NewRange of a hunk
HasAdded(f) ==
    \E j \in 1..Len(f.Hunks) : OfMode(f.Hunks[j].NewRange.Lines, ADDED) # <<>>

\* C8 as stated: Changed() has no entry keyed by the NewName of a DELETED file.
C8_NoKeyOfDeleted ==
    pc = "changed" =>
        \A i \in 1..Len(ret.Files) :
            ret.Files[i].Mode = DELETED
                => ret.Files[i].NewName \notin DOMAIN changed

\* C8 as amended: Changed() has an entry keyed by the NewName of a DELETED
\* file only when a file of the same NewName that is not DELETED has an ADDED
\* line in a NewRange.
C8_DeletedAddsNoKey ==
    pc = "changed" =>
        \A i \in 1..Len(ret.Files) :
            (ret.Files[i].Mode = DELETED
             /\ ret.Files[i].NewName \in DOMAIN changed)
                => \E g \in 1..Len(ret.Files) :
                      /\ ret.Files[g].Mode # DELETED
                      /\ ret.Files[g].NewName = ret.Files[i].NewName
                      /\ HasAdded(ret.Files[g])

\* Changed() passed over a DELETED file that has ADDED lines in a NewRange
C8_Witness ==
    /\ pc = "changed"
    /\ \E i \in 1..Len(ret.Files) :
          /\ ret.Files[i].Mode = DELETED
          /\ HasAdded(ret.Files[i])
          /\ ret.Files[i].NewName \notin DOMAIN changed

\* the Numbers of the ADDED lines of the NewRanges of the hunks hs from the
\* j-th on, in order
RECURSIVE AddedOfHunks(_, _)
AddedOfHunks(hs, j) ==
    IF j > Len(hs) THEN <<>>
    ELSE Numbers(OfMode(hs[j].NewRange.Lines, ADDED)) \o AddedOfHunks(hs, j + 1)

\* the same of the files fs from the i-th on that are not DELETED and whose
\* NewName is p
RECURSIVE AddedOfFiles(_, _, _)
AddedOfFiles(fs, p, i) ==
    IF i > Len(fs) THEN <<>>
    ELSE (IF fs[i].Mode # DELETED /\ fs[i].NewName = p
          THEN AddedOfHunks(fs[i].Hunks, 1) ELSE <<>>)
         \o AddedOfFiles(fs, p, i + 1)

\* C9: Changed() maps each key p to the Numbers of the ADDED lines of the
\* files that are not DELETED and whose NewName is p, in the order of the
\* Diff; its keys are the names that have such a line; the Diff is unchanged.
C9_ChangedLines ==
    pc = "changed" =>
        /\ DOMAIN changed
             = {ret.Files[i].NewName : i \in
                   {i \in 1..Len(ret.Files) :
                       AddedOfFiles(ret.Files, ret.Files[i].NewName, 1) # <<>>}}
        /\ \A p \in DOMAIN changed : changed[p] = AddedOfFiles(ret.Files, p, 1)
        /\ ret = [nil |-> FALSE, Files |-> diff.Files, Raw |-> diffString]

\* the example of the claim: two added lines at 5 and 6 in x.txt
C9_Witness ==
    /\ pc = "changed"
    /\ changed = ("x.txt" :> <<Int64(5), Int64(6)>>)

\* C10: the Mode of a file is MODIFIED when its section holds no mode line
\* and else the mode of the last mode line of its section.
C10_FileMode ==
    ReturnedDiff =>
        /\ Len(ret.Files) = Len(DiffIdxs)
        /\ \A i \in 1..Len(ret.Files) :
              ret.Files[i].Mode =
                 IF ModeIdxs(i) = <<>> THEN MODIFIED
                 ELSE ModeOfLine(lines[ModeIdxs(i)[Len(ModeIdxs(i))]])

\* a section with two mode lines, followed by a section with another one
C10_Witness ==
    /\ ReturnedDiff
    /\ \E i \in 1..Len(ret.Files) :
          /\ Len(ModeIdxs(i)) >= 2
          /\ ModeOfLine(lines[ModeIdxs(i)[1]]) # ret.Files[i].Mode
    /\ \E i \in 1..Len(ret.Files) : ret.Files[i].Mode = MODIFIED

\* the index of the first character c of s, 0 when s holds none
FirstIdx(s, c) ==
    LET at == {i \in 1..Len(s) : Char(s, i) = c}
    IN  IF at = {} THEN 0 ELSE CHOOSE i \in at : \A j \in at : i <= j

AllDigits(s) == \A i \in 1..Len(s) : FirstIdx("0123456789", Char(s, i)) > 0

\* the decimal digits that write the int i >= 0
RECURSIVE Decimal(_)
Decimal(i) ==
    LET t == (i[1] % 10) * Limb + i[2]
        u == (t % 10) * Limb + i[3]
        q == <<i[1] \div 10, t \div 10, u \div 10>>
        d == SubSeq("0123456789", (u % 10) + 1, (u % 10) + 1)
    IN  IF q = <<0, 0, 0>> THEN d ELSE Decimal(q) \o d

\* the digits s less their leading zeros
RECURSIVE Plain(_)
Plain(s) == IF Len(s) > 1 /\ Starts(s, "0") THEN Plain(From(s, 2)) ELSE s

\* the pieces of a hunk line `@@ -old +new @@[ ]heading`: [ok, old, new,
\* heading], old and new being the texts `A[,B]` and `C[,D]`
HunkPieces(l) ==
    LET rest == IF Starts(l, "@@ -") THEN From(l, 5) ELSE ""
        sp1 == FirstIdx(rest, " ")
        after == IF sp1 > 0 THEN From(rest, sp1 + 1) ELSE ""
        sp2 == FirstIdx(after, " ")
        tail == IF sp2 > 0 THEN From(after, sp2 + 1) ELSE ""
        heading == IF Starts(tail, "@@ ") THEN From(tail, 4)
                   ELSE IF Starts(tail, "@@") THEN From(tail, 3) ELSE ""
    IN  [ok |-> Starts(after, "+") /\ Starts(tail, "@@"),
         old |-> IF sp1 > 0 THEN SubSeq(rest, 1, sp1 - 1) ELSE "",
         new |-> IF sp2 > 0 THEN SubSeq(after, 2, sp2 - 1) ELSE "",
         heading |-> heading]

\* the start of a range text `A[,B]`
RangeStart(t) ==
    IF FirstIdx(t, ",") > 0 THEN SubSeq(t, 1, FirstIdx(t, ",") - 1) ELSE t

\* the length of a range text `A[,B]`, the empty text when B is omitted
RangeLength(t) ==
    IF FirstIdx(t, ",") > 0 THEN From(t, FirstIdx(t, ",") + 1) ELSE ""

\* t has the form `A[,B]` with numbers A and B
IsRange(t) ==
    /\ RangeStart(t) # ""
    /\ AllDigits(RangeStart(t))
    /\ AllDigits(RangeLength(t))

\* l has the form `@@ -A[,B] +C[,D] @@ [heading]`
HunkForm(l) ==
    HunkPieces(l).ok /\ IsRange(HunkPieces(l).old) /\ IsRange(HunkPieces(l).new)

\* the Start and Length that a range text `A[,B]` declares, in digits
Declared(t) ==
    [Start |-> Plain(RangeStart(t)),
     Length |-> IF RangeLength(t) = "" THEN Plain(RangeStart(t))
                ELSE Plain(RangeLength(t))]

\* C11: the returned Diff has one file per `diff ` line of the input, in the
\* order of the lines, the i-th file has one hunk per `@@ ` line of the i-th
\* section, in the order of the lines, and Raw is the input text.
C11_FilesAndHunks ==
    ReturnedDiff =>
        /\ ret.Raw = diffString
        /\ Len(ret.Files) = Len(DiffIdxs)
        /\ \A i \in 1..Len(ret.Files) :
              /\ Starts(ret.Files[i].DiffHeader, lines[DiffIdxs[i]])
              /\ Len(ret.Files[i].Hunks) = Len(HunkIdxs(i))
              /\ \A j \in 1..Len(ret.Files[i].Hunks) :
                    LET l == lines[HunkIdxs(i)[j]]
                        h == ret.Files[i].Hunks[j]
                    IN  HunkForm(l) =>
                           /\ Decimal(h.OrigRange.Start) =
                                  Declared(HunkPieces(l).old).Start
                           /\ Decimal(h.NewRange.Start) =
                                  Declared(HunkPieces(l).new).Start

\* a Diff of two files, the first with two different hunks, the second with one
C11_Witness ==
    /\ ReturnedDiff
    /\ Len(ret.Files) = 2
    /\ Len(ret.Files[1].Hunks) = 2
    /\ Len(ret.Files[2].Hunks) = 1
    /\ ret.Files[1].Hunks[1].NewRange.Start # ret.Files[1].Hunks[2].NewRange.Start
    /\ ret.Raw = diffString
    /\ Len(lines) > 1

\* C12: a hunk whose header line is `@@ -A[,B] +C[,D] @@ [heading]` has
\* OrigRange.Start A and Length B (A when B is omitted), NewRange.Start C and
\* Length D (C when D is omitted) and HunkHeader heading, whatever number of
\* lines its ranges hold.
C12_HunkHeader ==
    ReturnedDiff =>
        \A ij \in RetHunks :
            LET l == lines[HunkIdxs(ij[1])[ij[2]]]
                h == RetHunk(ij)
                old == Declared(HunkPieces(l).old)
                new == Declared(HunkPieces(l).new)
            IN  HunkForm(l) =>
                   /\ Decimal(h.OrigRange.Start) = old.Start
                   /\ Decimal(h.OrigRange.Length) = old.Length
                   /\ Decimal(h.NewRange.Start) = new.Start
                   /\ Decimal(h.NewRange.Length) = new.Length
                   /\ h.HunkHeader = HunkPieces(l).heading

\* a hunk of `@@ -5 +7 @@ fn` with lines in its NewRange
C12_Witness ==
    /\ ReturnedDiff
    /\ \E ij \in RetHunks :
          /\ lines[HunkIdxs(ij[1])[ij[2]]] = "@@ -5 +7 @@ fn"
          /\ RetHunk(ij).HunkHeader = "fn"
          /\ RetHunk(ij).OrigRange.Length = Int64(5)
          /\ RetHunk(ij).NewRange.Length = Int64(7)
          /\ Len(RetHunk(ij).NewRange.Lines) \in {1, 2}
          /\ Len(RetHunk(ij).OrigRange.Lines) = 0

\* l is an index line: `index ` followed by at least one character
IsIndexLine(l) == Starts(l, "index ") /\ Len(l) > Len("index ")

\* the i-th file section has an index line right after its `diff ` line
HasIndex(i) ==
    DiffIdxs[i] + 1 <= Len(lines) /\ IsIndexLine(lines[DiffIdxs[i] + 1])

\* C14: when the line right after a `diff ` line is an index line, the
\* DiffHeader of the file is the `diff ` line, a line break and the index
\* line, possibly followed by more.
C14_IndexAppended ==
    ReturnedDiff =>
        \A i \in 1..Len(ret.Files) :
            HasIndex(i) =>
                Starts(ret.Files[i].DiffHeader,
                       lines[DiffIdxs[i]] \o "\n" \o lines[DiffIdxs[i] + 1])

\* l is a path marker line: three of `-` and `+`, a space, and more
IsMarker(l) ==
    /\ Len(l) >= 5
    /\ \A k \in 1..3 : SubSeq(l, k, k) \in {"-", "+"}
    /\ SubSeq(l, 4, 4) = " "

\* the index of the first of the two lines that follow the `diff ` line of
\* the i-th section and its index line, if it has one
PairIdx(i) == DiffIdxs[i] + (IF HasIndex(i) THEN 1 ELSE 0) + 1

\* both of them are there and are marker lines
HasPair(i) ==
    /\ PairIdx(i) + 1 <= Len(lines)
    /\ IsMarker(lines[PairIdx(i)])
    /\ IsMarker(lines[PairIdx(i) + 1])

EndsWith(s, t) == Len(s) >= Len(t) /\ SubSeq(s, Len(s) - Len(t) + 1, Len(s)) = t

\* the lines of the header h
HeaderLines(h) == Split(h, "\n")

\* C15: the DiffHeader starts with the `diff ` line; it ends with the two
\* lines that follow the `diff ` line and its index line when both are marker
\* lines, and else it holds no marker line.
C15_MarkerPair ==
    ReturnedDiff =>
        \A i \in 1..Len(ret.Files) :
            LET h == ret.Files[i].DiffHeader
            IN  /\ Starts(h, lines[DiffIdxs[i]])
                /\ IF HasPair(i)
                   THEN EndsWith(h, "\n" \o lines[PairIdx(i)] \o "\n"
                                         \o lines[PairIdx(i) + 1])
                   ELSE \A k \in 2..Len(HeaderLines(h)) :
                           ~IsMarker(HeaderLines(h)[k])

\* how many of the input lines ks[1..n] begin with one of the characters cs
CountOf(ks, n, cs) ==
    Cardinality({k \in 1..n : SubSeq(lines[ks[k]], 1, 1) \in cs})

\* the mode that the first character of a content line stands for
ModeOfChar(c) ==
    IF c = "+" THEN ADDED ELSE IF c = "-" THEN REMOVED ELSE UNCHANGED_

\* a counter that was set to start and then incremented n times
RECURSIVE Counter(_, _)
Counter(start, n) == IF n = 0 THEN start ELSE Inc(Counter(start, n - 1))

\* the entry of the content line ks[k] of a hunk whose ranges start at
\* origStart and newStart, numbered with the new-file counter or with the
\* old-file one
Entry(ks, k, origStart, newStart, first, forNew) ==
    [Mode |-> ModeOfChar(SubSeq(lines[ks[k]], 1, 1)),
     Number |-> IF forNew
                THEN Counter(newStart, CountOf(ks, k - 1, {"+", " "}))
                ELSE Counter(origStart, CountOf(ks, k - 1, {"-", " "})),
     Content |-> Tail(lines[ks[k]]),
     Position |-> ks[k] - first]

\* C16: in every hunk WholeRange holds one entry per content line, in the
\* order of the lines, with the line less its first character as Content and
\* with the new-file number for an added or unchanged line and the old-file
\* number for a removed one; NewRange holds the entries of the added and
\* unchanged lines with new-file numbers, OrigRange those of the removed and
\* unchanged lines with old-file numbers.
C16_RangeEntries ==
    ReturnedDiff =>
        \A ij \in RetHunks :
            LET h == RetHunk(ij)
                first == HunkIdxs(ij[1])[1]
                ks == ContentIdxs(ij[1], ij[2])
                nks == ContentIdxsOf(ij[1], ij[2], {"+", " "})
                oks == ContentIdxsOf(ij[1], ij[2], {"-", " "})
                E(k, forNew) == Entry(ks, k, h.OrigRange.Start,
                                      h.NewRange.Start, first, forNew)
                \* the place in ks of the input line x
                at(x) == CHOOSE k \in 1..Len(ks) : ks[k] = x
            IN  /\ h.WholeRange.Lines =
                      [k \in 1..Len(ks) |->
                          E(k, SubSeq(lines[ks[k]], 1, 1) # "-")]
                /\ h.NewRange.Lines =
                      [k \in 1..Len(nks) |-> E(at(nks[k]), TRUE)]
                /\ h.OrigRange.Lines =
                      [k \in 1..Len(oks) |-> E(at(oks[k]), FALSE)]

\* a hunk with an unchanged line whose two numbers differ, after another line
C16_Witness ==
    /\ ReturnedDiff
    /\ \E ij \in RetHunks :
          \E k \in 2..Len(RetHunk(ij).WholeRange.Lines) :
              LET w == RetHunk(ij).WholeRange.Lines[k]
              IN  /\ w.Mode = UNCHANGED_
                  /\ w \in {RetHunk(ij).NewRange.Lines[n] :
                               n \in 1..Len(RetHunk(ij).NewRange.Lines)}
                  /\ \E o \in 1..Len(RetHunk(ij).OrigRange.Lines) :
                        /\ RetHunk(ij).OrigRange.Lines[o].Content = w.Content
                        /\ RetHunk(ij).OrigRange.Lines[o].Position = w.Position
                        /\ RetHunk(ij).OrigRange.Lines[o].Number # w.Number

\* the line of this iteration is one that is no content: empty, the
\* no-newline marker, or a line that starts with `---` or `+++`
NonContentNext ==
    /\ Scanning
    /\ \/ Cur = ""
       \/ Cur = "\\ No newline at end of file"
       \/ Starts(Cur, "---")
       \/ Starts(Cur, "+++")

\* C17: in an active hunk a line that is empty, the no-newline marker or a
\* line starting with `---` or `+++` adds no entry to a range, leaves the
\* two line counters alone and causes no error: the step changes the
\* position counter, by one, and the loop index only.
C17_NonContentFrame ==
    [][(NonContentNext /\ inHunk) =>
          /\ diff' = diff
          /\ ADDEDCount' = ADDEDCount
          /\ REMOVEDCount' = REMOVEDCount
          /\ diffPosCount' = diffPosCount + 1
          /\ idx' = idx + 1
          /\ pc' = "loop" /\ err' = ErrNone /\ ret' = ret
          /\ UNCHANGED <<file, hunk, inHunk, firstHunkInFile, changed>>]_vars

\* the scan has just passed a `---` line in a hunk that holds lines, and a
\* content line follows
C17_Witness ==
    /\ Scanning
    /\ inHunk
    /\ idx >= 3
    /\ lines[idx] = "--- a/x"
    /\ IsContent(lines[idx - 1])
    /\ IsContent(Cur)
    /\ diff.Files[hunk[1]].Hunks[hunk[2]].WholeRange.Lines # <<>>

\* the index of the last of the input lines 1..n that satisfies Test, or 0
LastIdx(n, Test(_)) ==
    LET at == {k \in 1..n : Test(lines[k])}
    IN  IF at = {} THEN 0 ELSE CHOOSE k \in at : \A j \in at : j <= k

\* the input lines 1..n end in the head of a file section: after a `diff `
\* line no `@@ ` line has come
InSectionHead(n) ==
    LastIdx(n, IsDiffLine) > 0 /\ LastIdx(n, IsHunkLine) < LastIdx(n, IsDiffLine)

\* the hunks of the files of the Diff d
HunksOf(d) == [i \in 1..Len(d.Files) |-> d.Files[i].Hunks]

\* C18: a `diff ` line closes the hunk in progress: a line between a `diff `
\* line and the next `@@ ` line changes no hunk and causes no error, whatever
\* its first character, and no step changes a hunk of a file other than the
\* last one.
C18_DiffClosesHunk ==
    [][/\ (Scanning /\ InSectionHead(idx) /\ ~IsHunkLine(Cur)) =>
              /\ \A i \in 1..Len(diff.Files) : HunksOf(diff')[i] = HunksOf(diff)[i]
              /\ pc' = "loop"
              /\ err' = ErrNone
       /\ \A i \in 1..(Len(diff.Files) - 1) :
              HunksOf(diff')[i] = HunksOf(diff)[i]]_vars

\* the scan has passed a content line in the head of the second file section
\* while the first file has a hunk with lines
C18_Witness ==
    /\ pc = "loop"
    /\ idx >= 1
    /\ InSectionHead(idx)
    /\ IsContent(lines[idx])
    /\ Len(diff.Files) = 2
    /\ Len(diff.Files[1].Hunks) = 1
    /\ diff.Files[1].Hunks[1].WholeRange.Lines # <<>>
    /\ diff.Files[2].Hunks = <<>>

\* the code points of the white space characters above ASCII
WhiteSpace == {133, 160, 5760, 8232, 8233, 8239, 8287, 12288} \cup (8192..8202)

\* the bytes that write the character of code point cp in UTF-8, for
\* 128 <= cp < 65536
Utf8(cp) ==
    IF cp < 2048
    THEN Byte(192 + (cp \div 64)) \o Byte(128 + (cp % 64))
    ELSE Byte(224 + (cp \div 4096)) \o Byte(128 + ((cp \div 64) % 64))
         \o Byte(128 + (cp % 64))

\* the white space characters of ASCII
Blanks == {" ", "\t", "\n", "\r", "\f", VT}

\* the white space characters above ASCII, as they stand in a text
WideBlanks == {Utf8(cp) : cp \in WhiteSpace}

\* the indexes of l that lie in a white space character
Covered(l) ==
    {i \in 1..Len(l) :
        \/ SubSeq(l, i, i) \in Blanks
        \/ /\ SubSeq(l, i, i) \in High
           /\ \E b \in WideBlanks : \E j \in (i - Len(b) + 1)..i :
                  /\ j >= 1
                  /\ j + Len(b) - 1 <= Len(l)
                  /\ SubSeq(l, j, j + Len(b) - 1) = b}

\* the indexes of l where a token (a longest run without white space) starts
TokenStarts(l) ==
    LET cov == Covered(l)
    IN  {i \in 1..Len(l) : i \notin cov /\ (i = 1 \/ (i - 1) \in cov)}

\* the token of l that starts at i
TokenAt(l, i) ==
    LET cov == Covered(l)
        stops == {j \in i..Len(l) : j = Len(l) \/ (j + 1) \in cov}
    IN  SubSeq(l, i, CHOOSE j \in stops : \A k \in stops : j <= k)

\* the n-th token of l from the end (1 is the last one)
TokenFromEnd(l, n) ==
    LET ts == TokenStarts(l)
    IN  TokenAt(l, CHOOSE i \in ts : Cardinality({j \in ts : j > i}) = n - 1)

\* the token t less the marker p, or the empty name when t has no marker
Unmarked(t, p) == IF Starts(t, p) THEN SubSeq(t, Len(p) + 1, Len(t)) ELSE ""

\* C19: with three or more tokens on the `diff ` line OrigName is the token
\* before the last less its `a/` and NewName the last token less its `b/`,
\* each empty when the marker is missing; with fewer tokens both are empty,
\* and no `diff ` line is the line at which Parse returns an error.
C19_FileNames ==
    /\ ReturnedDiff =>
           \A i \in 1..Len(ret.Files) :
               LET l == lines[DiffIdxs[i]]
                   f == ret.Files[i]
               IN  IF Cardinality(TokenStarts(l)) >= 3
                   THEN /\ f.OrigName = Unmarked(TokenFromEnd(l, 2), "a/")
                        /\ f.NewName = Unmarked(TokenFromEnd(l, 1), "b/")
                   ELSE f.OrigName = "" /\ f.NewName = ""
    /\ (pc = "returned" /\ err # ErrNone) => ~IsDiffLine(lines[idx + 1])

\* a `diff ` line whose last token has the marker and whose token before has
\* none, and one of fewer than three tokens
C19_Witness ==
    /\ ReturnedDiff
    /\ Len(ret.Files) = 1
    /\ \/ /\ lines[1] = "diff --git x b/y"
          /\ ret.Files[1].OrigName = ""
          /\ ret.Files[1].NewName = "y"
       \/ /\ lines[1] = "diff  -r\ta/x b/a/y "
          /\ ret.Files[1].OrigName = "x"
          /\ ret.Files[1].NewName = "a/y"

\* while the in-hunk flag is set there is a current file, it is the last of
\* diff.Files, and the current hunk is its last hunk
InHunkIsLast ==
    inHunk =>
        /\ file > 0
        /\ file = Len(diff.Files)
        /\ Len(diff.Files[file].Hunks) > 0
        /\ hunk = <<file, Len(diff.Files[file].Hunks)>>

\* a step changes no file before the last one and no hunk of the last file
\* before its last one
ClosedStay ==
    LET n == Len(diff.Files)
    IN  /\ \A i \in 1..(n - 1) : diff'.Files[i] = diff.Files[i]
        /\ n > 0 =>
               \A j \in 1..(Len(diff.Files[n].Hunks) - 1) :
                   diff'.Files[n].Hunks[j] = diff.Files[n].Hunks[j]

\* C20: whenever the in-hunk flag is set a current file exists and the current
\* hunk is the last hunk of the last file of diff.Files, and no step of the
\* scan changes a file or a hunk that was closed earlier.
C20_ScanInvariant == []InHunkIsLast /\ [][ClosedStay]_vars

====
